---------------------------- MODULE Spec2Model ----------------------------
(***************************************************************************)
(* Model of go-license-detector's detection pipeline:                      *)
(*   licensedb/licensedb.go              Detect                            *)
(*   licensedb/internal/investigation.go file classification, candidate    *)
(*                                       extraction, max-merge of scores,  *)
(*                                       the once-initialised database     *)
(*                                                                         *)
(* Byte strings are sequences of bytes, each byte a string ("NUL" is the   *)
(* zero byte, "BACKTICK" the backquote).  A []byte slice is a record       *)
(* [data, spare]: data is the slice's content (len = Len(data)) and spare  *)
(* the bytes of its backing array between len and cap.                     *)
(***************************************************************************)
EXTENDS Integers, Sequences, FiniteSets, TLC

VARIABLES
    \* ---- one Detect call on one file tree (licensedb.go)
    present,      \* the pool entries that exist in the tree's root
    unreadable,   \* the files of the tree whose ReadFile fails
    rootErr,      \* ReadDir("") fails
    dirErr,       \* ReadDir of the license directory fails
    pc,           \* position of Detect
    fileNames,    \* Detect's fileNames
    licenses,     \* Detect's licenses
    err,          \* the error Detect returns
    ran,          \* the stages entered so far, in order
    stageRes,     \* the merged ScoreMap each entered stage produced
    licCands,     \* the candidates ExtractLicenseFiles returned
    readmeCands,  \* the candidates ExtractReadmeFiles returned
    headers,      \* what ExtractSourceFiles returned, and what it did with each candidate
    result,       \* the map Detect returns: nil, or a ScoreMap
    \* ---- concurrent callers of globalLicenseDatabase
    opc,          \* position of each caller
    mu,           \* holder of the Once's mutex (0: free)
    done,         \* the Once's done flag
    database,     \* globalLicenseDB.database: 0 (nil) or the number of a built object
    objects,      \* the database objects loadLicenses has started, each "partial" or "complete"
    ret,          \* what each caller returned
    \* ---- the per-stage merge applied to per-candidate score maps
    mpc,
    scoreMaps,    \* the per-candidate score maps, in candidate order
    merged,       \* the merge in candidate order
    mergedAlt,    \* the merge in another order
    \* ---- the file classifier applied to one name
    cpc,
    cname,
    cLicense,     \* licenseFileRe matched the name as ExtractLicenseFiles tests it
    cDir          \* IsLicenseDirectory(name)

detectVars == <<present, unreadable, rootErr, dirErr, pc, fileNames, licenses,
                err, ran, stageRes, licCands, readmeCands, headers, result>>
onceVars == <<opc, mu, done, database, objects, ret>>
mergeVars == <<mpc, scoreMaps, merged, mergedAlt>>
classifyVars == <<cpc, cname, cLicense, cDir>>
vars == <<detectVars, onceVars, mergeVars, classifyVars>>

-----------------------------------------------------------------------------
(* Byte strings *)

Min(a, b) == IF a < b THEN a ELSE b

MinOf(S) == CHOOSE x \in S : \A y \in S : x <= y

MaxOf(S) == CHOOSE x \in S : \A y \in S : y <= x

Range(s) == {s[i] : i \in DOMAIN s}

\* s[from..], empty when from is past the end
Drop(s, from) == SubSeq(s, from, Len(s))

\* pat occurs in s starting at index i
StartsAt(s, i, pat) ==
    /\ i >= 1
    /\ i + Len(pat) - 1 <= Len(s)
    /\ \A k \in 1..Len(pat) : s[i + k - 1] = pat[k]

RECURSIVE Concat(_)
Concat(ss) == IF ss = <<>> THEN <<>> ELSE Head(ss) \o Concat(Tail(ss))

\* n copies of the byte c
Fill(c, n) == [i \in 1..n |-> c]

UpperCase == <<"A","B","C","D","E","F","G","H","I","J","K","L","M","N","O","P","Q","R","S","T","U","V","W","X","Y","Z">>
LowerCase == <<"a","b","c","d","e","f","g","h","i","j","k","l","m","n","o","p","q","r","s","t","u","v","w","x","y","z">>

\* strings.ToLower, on ASCII
ToLower(s) ==
    [i \in DOMAIN s |->
        IF \E k \in DOMAIN UpperCase : UpperCase[k] = s[i]
        THEN LowerCase[CHOOSE k \in DOMAIN UpperCase : UpperCase[k] = s[i]]
        ELSE s[i]]

WhiteSpace == {" ", "\t", "\n", "\r", "\f"}

\* bytes.TrimSpace
TrimSpace(s) ==
    LET keep == {i \in DOMAIN s : s[i] \notin WhiteSpace}
    IN  IF keep = {} THEN <<>> ELSE SubSeq(s, MinOf(keep), MaxOf(keep))

-----------------------------------------------------------------------------
(* package path *)

\* path.Base: the last element of the path, trailing slashes removed
Base(path) ==
    IF path = <<>> THEN <<".">>
    ELSE LET nonSlash == {i \in DOMAIN path : path[i] # "/"}
         IN  IF nonSlash = {} THEN <<"/">>
             ELSE LET last == MaxOf(nonSlash)
                      slashes == {i \in 1..last : path[i] = "/"}
                      first == IF slashes = {} THEN 1 ELSE MaxOf(slashes) + 1
                  IN  SubSeq(path, first, last)

\* path.Ext: the suffix beginning at the final dot of the final element
Ext(path) ==
    LET slashes == {i \in DOMAIN path : path[i] = "/"}
        from == IF slashes = {} THEN 1 ELSE MaxOf(slashes) + 1
        dots == {i \in from..Len(path) : path[i] = "."}
    IN  IF dots = {} THEN <<>> ELSE Drop(path, MaxOf(dots))

\* path.Join of a directory name and an entry name as ReadDir lists them
\* (single clean elements, on which path.Clean changes nothing)
Join(dir, name) ==
    IF dir = <<>> THEN name
    ELSE IF name = <<>> THEN dir
    ELSE dir \o <<"/">> \o name

-----------------------------------------------------------------------------
(* File-name patterns *)

Digits == {"0", "1", "2", "3", "4", "5", "6", "7", "8", "9"}

\* l?gpl([-_ v]?)(\d\.?\d)?
GplNames ==
    {l \o <<"g","p","l">> \o sep \o ver :
        l \in {<<>>, <<"l">>},
        sep \in {<<>>} \cup {<<c>> : c \in {"-", "_", " ", "v"}},
        ver \in {<<>>} \cup {<<a, b>> : a \in Digits, b \in Digits}
                       \cup {<<a, ".", b>> : a \in Digits, b \in Digits}}

\* The language of the alternation of licenseFileNames
licenseFileNames ==
    {<<"l","i">> \o <<a>> \o <<"e","n">> \o <<b>> \o <<"e">> \o s :
        a \in {"c", "s"}, b \in {"c", "s"}, s \in {<<>>, <<"s">>}}
    \cup {<<"l","e","g","a","l">>}
    \cup {<<"c","o","p","y","l","e","f","t">>, <<"c","o","p","y","r","i","g","h","t">>, <<"c","o","p","y","i","n","g">>}
    \cup {<<"u","n","l","i","c","e","n","s","e">>}
    \cup GplNames
    \cup {<<"b","s","d">>, <<"m","i","t">>, <<"a","p","a","c","h","e">>}

fileExtensions == {<<>>, <<".","m","d">>, <<".","r","s","t">>, <<".","h","t","m","l">>, <<".","t","x","t">>}

Separators == {"-", "_", ".", " "}

\* . of a regular expression without the s flag: any character but a newline
NoNewline(s) == \A i \in DOMAIN s : s[i] # "\n"

\* licenseFileRe.MatchString(s): ^(|.*[-_. ])(names)(|[-_. ].*)$
licenseFileRe(s) ==
    \E i \in 1..(Len(s) + 1) : \E j \in (i - 1)..Len(s) :
        /\ SubSeq(s, i, j) \in licenseFileNames
        /\ i = 1 \/ (s[i - 1] \in Separators /\ NoNewline(SubSeq(s, 1, i - 2)))
        /\ j = Len(s) \/ (s[j + 1] \in Separators /\ NoNewline(Drop(s, j + 2)))

\* readmeFileRe.MatchString(s): ^(readme|guidelines)(|\.md|\.rst|\.html|\.txt)$
readmeFileRe(s) ==
    s \in {n \o e : n \in {<<"r","e","a","d","m","e">>, <<"g","u","i","d","e","l","i","n","e","s">>}, e \in fileExtensions}

\* licenseDirectoryRe.MatchString(s): ^(names)$
licenseDirectoryRe(s) == s \in licenseFileNames

\* The test of a listed path with the lower-casing left out
IsLicenseFileLiteral(file) == licenseFileRe(Base(file))

\* The test ExtractLicenseFiles applies to a listed path
IsLicenseFile(file) == licenseFileRe(ToLower(Base(file)))

\* The test ExtractReadmeFiles applies to a listed path
IsReadmeFile(file) == readmeFileRe(ToLower(file))

IsLicenseDirectory(fileName) == licenseDirectoryRe(ToLower(fileName))

-----------------------------------------------------------------------------
(* The classifier applied to one name *)

ClassifyStems ==
    {<<"L","I","C","E","N","S","E">>, <<"L","i","c","e","n","s","e">>, <<"l","i","c","e","n","s","e">>, <<"l","i","c","e","n","c","e">>, <<"L","I","C","E","N","C","E","S">>,
     <<"C","O","P","Y","I","N","G">>, <<"c","o","p","y","r","i","g","h","t">>, <<"u","n","l","i","c","e","n","s","e">>, <<"U","N","L","I","C","E","N","S","E">>, <<"l","e","g","a","l">>,
     <<"m","i","t">>, <<"M","I","T">>, <<"b","s","d">>, <<"a","p","a","c","h","e">>, <<"g","p","l">>, <<"l","g","p","l","-","3",".","0">>, <<"G","P","L","v","2">>,
     <<"l","i","c","e","n","s","e","p","l","a","t","e">>, <<"r","e","l","i","c","e","n","s","e">>, <<"p","e","r","m","i","t">>, <<"r","e","a","d","m","e">>, <<"m","a","i","n">>}

ClassifySuffixes ==
    {<<>>, <<".","t","x","t">>, <<".","m","d">>, <<"-","p","l","a","t","e",".","t","x","t">>, <<"-","M","I","T">>, <<"p","l","a","t","e",".","t","x","t">>, <<" ","2",".","0">>}

ClassifyPrefixes == {<<>>, <<"m","y","-">>, <<"m","y">>, <<"d","o","c","s","/">>}

ClassifyNames ==
    {p \o n \o s : p \in ClassifyPrefixes, n \in ClassifyStems, s \in ClassifySuffixes}

ClassifyIdle ==
    /\ cpc = "idle"
    /\ cname = <<>>
    /\ cLicense = FALSE
    /\ cDir = FALSE

InitClassify ==
    /\ cpc = "named"
    /\ cname \in ClassifyNames
    /\ cLicense = FALSE
    /\ cDir = FALSE

\* The name is tested as ExtractLicenseFiles tests a listed path and as
\* Detect tests a root directory's name
Classify ==
    /\ cpc = "named"
    /\ cpc' = "classified"
    /\ cLicense' = IsLicenseFile(cname)
    /\ cDir' = IsLicenseDirectory(cname)
    /\ UNCHANGED cname
    /\ UNCHANGED <<detectVars, onceVars, mergeVars>>

-----------------------------------------------------------------------------
(* Slices and the file tree (filer.Filer) *)

Slice(data, spare) == [data |-> data, spare |-> spare]

NilSlice == Slice(<<>>, <<>>)

Cap(sl) == Len(sl.data) + Len(sl.spare)

\* The size below which ExtractLicenseFiles takes a license file for a redirect
RedirectLimit == 128

\* The number of leading bytes ExtractHeaderComments searches
HeaderWindow == 1024

\* Root entries a tree may hold, in the order ReadDir lists them
RootPool ==
    << [Name |-> <<"C","O","P","Y","I","N","G">>,     IsDir |-> FALSE],
       [Name |-> <<"L","I","C","E","N","S","E">>,     IsDir |-> FALSE],
       [Name |-> <<"L","I","C","E","N","S","E","-","M","I","T">>, IsDir |-> FALSE],
       [Name |-> <<"R","E","A","D","M","E",".","m","d">>,   IsDir |-> FALSE],
       [Name |-> <<"a",".","p","y">>,        IsDir |-> FALSE],
       [Name |-> <<"l","e","g","a","l",".","m","d">>,    IsDir |-> FALSE],
       [Name |-> <<"l","i","c","e","n","s","e","s">>,    IsDir |-> TRUE],
       [Name |-> <<"m","a","i","n",".","g","o">>,     IsDir |-> FALSE],
       [Name |-> <<"s","r","c">>,         IsDir |-> TRUE],
       [Name |-> <<"t","o","o","l",".","r","b">>,     IsDir |-> FALSE],
       [Name |-> <<"u","t","i","l",".","c">>,      IsDir |-> FALSE] >>

\* The entries of the directories of the pool
SubPool ==
    [d \in {<<"l","i","c","e","n","s","e","s">>, <<"s","r","c">>} |->
        IF d = <<"l","i","c","e","n","s","e","s">>
        THEN << [Name |-> <<"C","O","P","Y","I","N","G",".","m","d">>, IsDir |-> FALSE],
                [Name |-> <<"R","E","A","D","M","E",".","m","d">>,  IsDir |-> FALSE],
                [Name |-> <<"o","l","d">>,        IsDir |-> TRUE] >>
        ELSE << [Name |-> <<"l","i","b",".","g","o">>, IsDir |-> FALSE] >>]

\* What ReadFile yields for each file of the pool when the read succeeds
FileText(path) ==
    CASE path = <<"C","O","P","Y","I","N","G">> ->
            \* the name of a sibling, padded to exactly the redirect limit
            Slice(<<"L","I","C","E","N","S","E","-","M","I","T">> \o Fill("\n", RedirectLimit - 11), <<>>)
      [] path = <<"L","I","C","E","N","S","E">> ->
            \* a 12-byte redirect to a sibling
            Slice(<<"L","I","C","E","N","S","E","-","M","I","T","\n">>, <<>>)
      [] path = <<"L","I","C","E","N","S","E","-","M","I","T">> ->
            Slice(<<"M","I","T"," ","L","i","c","e","n","s","e"," ","M","I","T","\n">> \o Fill("t", RedirectLimit), <<>>)
      [] path = <<"R","E","A","D","M","E",".","m","d">> ->
            Slice(<<"#"," ","L","i","c","e","n","s","e","d"," ","u","n","d","e","r"," ","B","S","D","\n">>, <<>>)
      [] path = <<"a",".","p","y">> ->
            \* shorter than the header window, in a larger buffer
            Slice(<<"#"," ","M","I","T","\n","x"," ","="," ","1","\n">>, Fill("NUL", HeaderWindow))
      [] path = <<"l","e","g","a","l",".","m","d">> ->
            \* a redirect to a file that is itself a redirect
            Slice(<<" ","L","I","C","E","N","S","E","\n">>, <<>>)
      [] path = <<"l","i","c","e","n","s","e","s","/","C","O","P","Y","I","N","G",".","m","d">> ->
            \* short, and no path
            Slice(<<"#"," ","M","I","T","\n">>, <<>>)
      [] path = <<"l","i","c","e","n","s","e","s","/","R","E","A","D","M","E",".","m","d">> ->
            Slice(<<"L","i","c","e","n","s","e","d"," ","u","n","d","e","r"," ","B","S","D","\n">>, <<>>)
      [] path = <<"m","a","i","n",".","g","o">> ->
            \* a second comment begins inside the header window and ends past it
            Slice(<<"/","*"," ","M","I","T","\n"," ","*"," ","M","I","T"," ","*","/","\n","p","a","c","k","a","g","e"," ","m","a","i","n","\n">>
                      \o Fill("g", HeaderWindow - 32) \o <<"/","*"," ","B","S","D"," ","*","/","\n">>, <<>>)
      [] path = <<"s","r","c","/","l","i","b",".","g","o">> ->
            Slice(<<"/","*"," ","B","S","D"," ","*","/">>, <<>>)
      [] path = <<"t","o","o","l",".","r","b">> ->
            Slice(<<"#"," ","M","I","T","\n">> \o Fill("r", HeaderWindow), <<>>)
      [] path = <<"u","t","i","l",".","c">> ->
            \* shorter than the header window, in a buffer of its own size
            Slice(<<"/","/"," ","B","S","D","\n","i","n","t"," ","x",";"," ","/","*"," ","B","S","D","\n"," ","B","S","D"," ","*","/","\n">>, <<>>)
      [] OTHER -> NilSlice

PoolNames == {RootPool[i].Name : i \in DOMAIN RootPool}

PoolDirs == {RootPool[i].Name : i \in {k \in DOMAIN RootPool : RootPool[k].IsDir}}

\* The files of the tree whose root holds the entries pres
TreeFiles(pres) ==
    {n \in pres : n \notin PoolDirs}
    \cup UNION {{Join(d, SubPool[d][i].Name) :
                    i \in {k \in DOMAIN SubPool[d] : ~SubPool[d][k].IsDir}} :
                d \in pres \cap PoolDirs}

\* fs.ReadDir(path)
ReadDir(path) ==
    IF path = <<>>
    THEN IF rootErr THEN [ok |-> FALSE, entries |-> <<>>]
         ELSE [ok |-> TRUE,
               entries |-> SelectSeq(RootPool, LAMBDA e : e.Name \in present)]
    ELSE IF path \in present \cap PoolDirs /\ ~dirErr
         THEN [ok |-> TRUE, entries |-> SubPool[path]]
         ELSE [ok |-> FALSE, entries |-> <<>>]

\* fs.ReadFile(path)
ReadFile(path) ==
    IF path \in TreeFiles(present) /\ path \notin unreadable
    THEN [ok |-> TRUE, text |-> FileText(path)]
    ELSE [ok |-> FALSE, text |-> NilSlice]

-----------------------------------------------------------------------------
(* External collaborators: markup strippers, language classifier, scoring *)

Strip(text, syntax) == Slice(SelectSeq(text.data, LAMBDA c : c \notin syntax), <<>>)

\* processors.Markdown, processors.RestructuredText, processors.HTML: each
\* removes its format's syntax and keeps the prose, in a slice of its own
Markdown(text) == Strip(text, {"#", "*", "BACKTICK"})

RestructuredText(text) == Strip(text, {"=", "BACKTICK"})

HTML(text) == Strip(text, {"<", ">"})

\* enry.GetLanguage: the language of a path and whether the answer is safe
GetLanguage(file) ==
    CASE Ext(file) = <<".","g","o">> -> [lang |-> "Go", safe |-> TRUE]
      [] Ext(file) = <<".","p","y">> -> [lang |-> "Python", safe |-> TRUE]
      [] Ext(file) = <<".","c">> -> [lang |-> "C", safe |-> TRUE]
      [] Ext(file) = <<".","r","b">> -> [lang |-> "Ruby", safe |-> TRUE]
      [] OTHER -> [lang |-> "", safe |-> FALSE]

\* The confidence that stands for 1.0
MaxConf == 2

LicenseIds == {"MIT", "BSD"}

LicenseWord(id) == IF id = "MIT" THEN <<"M","I","T">> ELSE <<"B","S","D">>

Count(text, word) == Cardinality({i \in DOMAIN text : StartsAt(text, i, word)})

\* database.QueryLicenseText: a confidence for each license the text resembles
QueryLicenseText(text) ==
    [id \in {l \in LicenseIds : Count(text, LicenseWord(l)) > 0} |->
        Min(Count(text, LicenseWord(id)), MaxConf)]

\* database.QueryReadmeText: a confidence for each license the prose names
QueryReadmeText(text) ==
    [id \in {l \in LicenseIds : Count(text, LicenseWord(l)) > 0} |-> 1]

\* database.QuerySourceFile
QuerySourceFile(text) == QueryLicenseText(text)

-----------------------------------------------------------------------------
(* Candidate extraction (investigation.go) *)

\* filePreprocessors[paths.Ext(file)], applied when it exists
ApplyPreprocessor(file, text) ==
    CASE Ext(file) = <<".","m","d">> -> Markdown(text)
      [] Ext(file) = <<".","r","s","t">> -> RestructuredText(text)
      [] Ext(file) = <<".","h","t","m","l">> -> HTML(text)
      [] OTHER -> text

\* A candidate: its text, the listed path it comes from (from) and the path
\* whose extension chose the preprocessor (file)
Candidate(text, from, file) == [text |-> text, from |-> from, file |-> file]

\* if err == nil { preprocess by paths.Ext(file); candidates = append(candidates, text) }
Appended(from, text, file, ok) ==
    IF ok THEN <<Candidate(ApplyPreprocessor(file, text), from, file)>> ELSE <<>>

\* ExtractLicenseFiles with the redirect left out
AfterReadNoRedirect(file, read) == Appended(file, read.text, file, read.ok)

\* The redirect: realText, err := fs.ReadFile(target), its err shadowing the
\* first read's; a readable target replaces file and text
AfterRedirect(file, read, target, real) ==
    IF real.ok
    THEN Appended(file, real.text, target, read.ok)
    ELSE Appended(file, read.text, file, read.ok)

\* ExtractLicenseFiles after text, err := fs.ReadFile(file)
AfterRead(file, read) ==
    IF Len(read.text.data) < RedirectLimit
    THEN AfterRedirect(file, read, TrimSpace(read.text.data),
                       ReadFile(TrimSpace(read.text.data)))
    ELSE Appended(file, read.text, file, read.ok)

\* The body of ExtractLicenseFiles's loop: the candidates one listed path adds
LicenseCandidate(file) ==
    IF IsLicenseFile(file) THEN AfterRead(file, ReadFile(file)) ELSE <<>>

ExtractLicenseFiles(files) ==
    Concat([i \in DOMAIN files |-> LicenseCandidate(files[i])])

\* if err == nil { preprocess; append }, in ExtractReadmeFiles and ExtractSourceFiles
ReadCandidate(file, read) == Appended(file, read.text, file, read.ok)

\* The body of ExtractReadmeFiles's loop
ReadmeCandidate(file) ==
    IF IsReadmeFile(file) THEN ReadCandidate(file, ReadFile(file)) ELSE <<>>

ExtractReadmeFiles(files) ==
    Concat([i \in DOMAIN files |-> ReadmeCandidate(files[i])])

-----------------------------------------------------------------------------
(* Comment syntaxes *)

\* A syntax is one regular expression of commentSyntaxes:
\*   line   the opener of (<line>.*\t?\r?\n?), <<>> when it has no such alternative
\*   open, close, multi
\*          multi:     (<open>(.*\t*\r*\n*)*<close>)
\*          otherwise: (<open>.*<close>)
commentSyntaxes ==
    [l \in {"C", "Go", "Python"} |->
        CASE l = "C" -> [line |-> <<"/","/">>, open |-> <<"/","*">>, close |-> <<"*","/">>, multi |-> TRUE]
          [] l = "Go" -> [line |-> <<>>, open |-> <<"/","*">>, close |-> <<"*","/">>, multi |-> TRUE]
          [] l = "Python" -> [line |-> <<"#">>, open |-> <<"BACKTICK","BACKTICK","BACKTICK">>, close |-> <<"BACKTICK","BACKTICK","BACKTICK">>, multi |-> FALSE]]

\* The last index of the match of <line>.*\t?\r?\n? that starts at i (0: none).
\* .* takes the rest of the line, \n? the newline that ends it.
LineEnd(sx, text, i) ==
    IF sx.line = <<>> \/ ~StartsAt(text, i, sx.line) THEN 0
    ELSE LET nls == {k \in (i + Len(sx.line))..Len(text) : text[k] = "\n"}
         IN  IF nls = {} THEN Len(text) ELSE MinOf(nls)

\* Where the close of the block that opens at i begins (0: none): the stars
\* are greedy, so it is the last close the body can reach
BlockClose(sx, text, i) ==
    IF ~StartsAt(text, i, sx.open) THEN 0
    ELSE LET from == i + Len(sx.open)
             closes == {c \in from..Len(text) :
                          /\ StartsAt(text, c, sx.close)
                          /\ sx.multi \/ NoNewline(SubSeq(text, from, c - 1))}
         IN  IF closes = {} THEN 0 ELSE MaxOf(closes)

\* The capture of the repeated group (.*\t*\r*\n*) in a block whose body is
\* text[from..to]: its last iteration, which starts after the body's last run
\* of newlines that is followed by another character
LastIteration(text, from, to) ==
    LET starts == {from} \cup {q \in (from + 1)..to : text[q - 1] = "\n" /\ text[q] # "\n"}
    IN  IF to < from THEN <<>> ELSE SubSeq(text, MaxOf(starts), to)

\* The submatches of a match that starts at i, given where its line
\* alternative ends (le) and where its block's close begins (bc): the whole
\* match, then every group
Submatch(sx, text, i, le, bc) ==
    LET be == bc + Len(sx.close) - 1
        lineText == IF le # 0 THEN SubSeq(text, i, le) ELSE <<>>
        blockText == IF le = 0 /\ bc # 0 THEN SubSeq(text, i, be) ELSE <<>>
        inner == IF le = 0 /\ bc # 0
                 THEN LastIteration(text, i + Len(sx.open), bc - 1) ELSE <<>>
    IN  [last |-> IF le # 0 THEN le ELSE be,
         groups |-> <<lineText \o blockText>>
                    \o (IF sx.line # <<>> THEN <<lineText>> ELSE <<>>)
                    \o <<blockText>>
                    \o (IF sx.multi THEN <<inner>> ELSE <<>>)]

SubmatchAt(sx, text, i) ==
    Submatch(sx, text, i, LineEnd(sx, text, i), BlockClose(sx, text, i))

MatchesAt(sx, text, i) == LineEnd(sx, text, i) # 0 \/ BlockClose(sx, text, i) # 0

\* reg.FindAllStringSubmatch(text, -1): the successive leftmost matches
RECURSIVE FindFrom(_, _, _)

\* The match m, then the matches after it
FindAfter(sx, text, m) == <<m.groups>> \o FindFrom(sx, text, m.last + 1)

\* The matches from the leftmost of the positions where one starts
FindLeftmost(sx, text, starts) ==
    IF starts = {} THEN <<>>
    ELSE FindAfter(sx, text, SubmatchAt(sx, text, MinOf(starts)))

FindFrom(sx, text, pos) ==
    FindLeftmost(sx, text, {i \in pos..Len(text) : MatchesAt(sx, text, i)})

FindAllStringSubmatch(sx, text) == FindFrom(sx, text, 1)

-----------------------------------------------------------------------------
(* Source files and their header comments *)

\* candidate[:1024]: the reslice reaches up to the capacity, past the length
Reslice(text) == SubSeq(text.data \o text.spare, 1, HeaderWindow)

\* What ExtractHeaderComments did with one candidate
Entry(candidate, lang, outcome, window, matchText) ==
    [from |-> candidate.from, lang |-> lang, data |-> candidate.text.data,
     outcome |-> outcome, window |-> window, matchText |-> matchText]

\* Every element of every match is appended: the match and its groups
MatchText(match) == Concat([i \in DOMAIN match |-> Concat(match[i])])

\* if match := reg.FindAllStringSubmatch(...); match != nil { ... }
Commented(candidate, lang, window, match) ==
    IF match = <<>>
    THEN Entry(candidate, lang, "nomatch", window, <<>>)
    ELSE Entry(candidate, lang, "comment", window, MatchText(match))

\* if reg, exists := commentSyntaxes[candidateLang]; exists { ... } else { diagnostic }
Searched(candidate, lang, window) ==
    IF lang \in DOMAIN commentSyntaxes
    THEN Commented(candidate, lang, window,
                   FindAllStringSubmatch(commentSyntaxes[lang], window))
    ELSE Entry(candidate, lang, "unsupported", window, <<>>)

\* The body of ExtractHeaderComments's loop, under the language langs[key]
HeaderEntry(candidate, lang) ==
    IF HeaderWindow > Cap(candidate.text)
    THEN Entry(candidate, lang, "panic", <<>>, <<>>)
    ELSE Searched(candidate, lang, Reslice(candidate.text))

\* The comments of the entries, or the panic of a reslice, and what was done
\* with each candidate up to there
Comments(entries) ==
    LET panics == {key \in DOMAIN entries : entries[key].outcome = "panic"}
        found == SelectSeq(entries, LAMBDA e : e.outcome = "comment")
    IN  [panicked |-> panics # {},
         trace |-> IF panics = {} THEN entries ELSE SubSeq(entries, 1, MinOf(panics)),
         comments |-> IF panics # {} THEN <<>>
                      ELSE [i \in DOMAIN found |-> Slice(found[i].matchText, <<>>)]]

ExtractHeaderComments(candidates, langs) ==
    Comments([key \in DOMAIN candidates |-> HeaderEntry(candidates[key], langs[key])])

NoComments == [panicked |-> FALSE, trace |-> <<>>, comments |-> <<>>]

\* The files enry classifies safely
SafeFiles(files) == SelectSeq(files, LAMBDA f : GetLanguage(f).safe)

\* langs grows with every safely classified file
SourceLangs(safe) == [i \in DOMAIN safe |-> GetLanguage(safe[i]).lang]

\* candidates grows only with those that could be read
SourceCandidates(safe) ==
    Concat([i \in DOMAIN safe |-> ReadCandidate(safe[i], ReadFile(safe[i]))])

\* if len(candidates) > 0 { candidates = ExtractHeaderComments(candidates, langs) }
HeaderStage(candidates, langs) ==
    IF Len(candidates) > 0 THEN ExtractHeaderComments(candidates, langs) ELSE NoComments

ExtractSourceFiles(files) ==
    HeaderStage(SourceCandidates(SafeFiles(files)), SourceLangs(SafeFiles(files)))

-----------------------------------------------------------------------------
(* The per-stage merge *)

\* A ScoreMap is a function from the license ids it holds to confidences
EmptyMap == <<>>

\* maxLicenses[name], the zero value when the key is absent
Lookup(m, name) == IF name \in DOMAIN m THEN m[name] ELSE 0

\* The inner loop with the comparison left out: the last candidate wins
MergeIntoLastWins(maxLicenses, candidates) ==
    [name \in DOMAIN maxLicenses \cup DOMAIN candidates |->
        IF name \in DOMAIN candidates THEN candidates[name] ELSE maxLicenses[name]]

\* The inner loop: for name, sim := range candidates
MergeInto(maxLicenses, candidates) ==
    LET raised == {name \in DOMAIN candidates : candidates[name] > Lookup(maxLicenses, name)}
    IN  [name \in DOMAIN maxLicenses \cup raised |->
            IF name \in raised THEN candidates[name] ELSE maxLicenses[name]]

\* The outer loop over the candidates' score maps, in order
RECURSIVE MergeFrom(_, _)
MergeFrom(maxLicenses, maps) ==
    IF maps = <<>> THEN maxLicenses
    ELSE MergeFrom(MergeInto(maxLicenses, Head(maps)), Tail(maps))

MaxMerge(maps) == MergeFrom(EmptyMap, maps)

InvestigateLicenseTexts(texts) ==
    MaxMerge([i \in DOMAIN texts |-> QueryLicenseText(texts[i].data)])

InvestigateReadmeTexts(texts) ==
    MaxMerge([i \in DOMAIN texts |-> QueryReadmeText(texts[i].data)])

InvestigateHeaderComments(texts) ==
    MaxMerge([i \in DOMAIN texts |-> QuerySourceFile(texts[i].data)])

Texts(candidates) == [i \in DOMAIN candidates |-> candidates[i].text]

-----------------------------------------------------------------------------
(* Detect (licensedb.go) *)

\* How many tree-access calls of one tree may fail
MaxFailures == 1

Stages == <<"license", "readme", "source">>

\* What Detect returns for its map: nil, or a ScoreMap
NilMap == [nil |-> TRUE, map |-> EmptyMap]

Returned(m) == [nil |-> FALSE, map |-> m]

DetectIdle ==
    /\ present = {}
    /\ unreadable = {}
    /\ rootErr = FALSE
    /\ dirErr = FALSE
    /\ pc = "idle"
    /\ fileNames = <<>>
    /\ licenses = EmptyMap
    /\ err = "none"
    /\ ran = <<>>
    /\ stageRes = <<>>
    /\ licCands = <<>>
    /\ readmeCands = <<>>
    /\ headers = NoComments
    /\ result = NilMap

\* The subsets of S of at most k elements
RECURSIVE UpTo(_, _)
UpTo(S, k) ==
    IF k = 0 THEN {{}}
    ELSE LET less == UpTo(S, k - 1)
         IN  less \cup {T \cup {x} : T \in less, x \in S}

LicenseDirs(pres) == {d \in pres \cap PoolDirs : IsLicenseDirectory(d)}

InitDetect ==
    /\ present \in SUBSET PoolNames
    /\ \E failing \in UpTo(TreeFiles(present) \cup {<<>>} \cup LicenseDirs(present),
                            MaxFailures) :
          /\ unreadable = failing \cap TreeFiles(present)
          /\ rootErr = (<<>> \in failing)
          /\ dirErr = (failing \cap LicenseDirs(present) # {})
    /\ pc = "start"
    /\ fileNames = <<>>
    /\ licenses = EmptyMap
    /\ err = "none"
    /\ ran = <<>>
    /\ stageRes = <<>>
    /\ licCands = <<>>
    /\ readmeCands = <<>>
    /\ headers = NoComments
    /\ result = NilMap

\* The names one root entry adds to fileNames
EntryNames(file) ==
    IF ~file.IsDir THEN <<file.Name>>
    ELSE IF IsLicenseDirectory(file.Name)
    THEN LET sub == ReadDir(file.Name)
             subfiles == SelectSeq(sub.entries, LAMBDA e : ~e.IsDir)
         IN  IF sub.ok
             THEN [i \in DOMAIN subfiles |-> Join(file.Name, subfiles[i].Name)]
             ELSE <<>>
    ELSE <<>>

\* len(licenses) > 0 taken for false whatever the map holds
FoundNever(m) == FALSE

\* len(licenses) > 0
Found(m) == Cardinality(DOMAIN m) > 0

\* Detect, from its start to the license-file stage: the listing
ListFiles ==
    /\ pc = "start"
    /\ \E root \in {ReadDir(<<>>)} :
          IF ~root.ok
          THEN /\ pc' = "done"
               /\ err' = "ReadDirError"
               /\ result' = NilMap
               /\ UNCHANGED fileNames
          ELSE /\ pc' = "license"
               /\ fileNames' = Concat([i \in DOMAIN root.entries |-> EntryNames(root.entries[i])])
               /\ UNCHANGED <<err, result>>
    /\ UNCHANGED <<present, unreadable, rootErr, dirErr, licenses, ran, stageRes,
                   licCands, readmeCands, headers>>
    /\ UNCHANGED <<onceVars, mergeVars, classifyVars>>

\* The license-file stage
ScanLicenseFiles ==
    /\ pc = "license"
    /\ licCands' = ExtractLicenseFiles(fileNames)
    /\ licenses' = InvestigateLicenseTexts(Texts(licCands'))
    /\ ran' = Append(ran, "license")
    /\ stageRes' = Append(stageRes, licenses')
    /\ IF Found(licenses')
       THEN pc' = "done" /\ err' = "nil" /\ result' = Returned(licenses')
       ELSE pc' = "readme" /\ UNCHANGED <<err, result>>
    /\ UNCHANGED <<present, unreadable, rootErr, dirErr, fileNames, readmeCands, headers>>
    /\ UNCHANGED <<onceVars, mergeVars, classifyVars>>

\* Plan B: the README stage
ScanReadme ==
    /\ pc = "readme"
    /\ readmeCands' = ExtractReadmeFiles(fileNames)
    /\ licenses' = IF Len(readmeCands') > 0
                   THEN InvestigateReadmeTexts(Texts(readmeCands'))
                   ELSE licenses
    /\ ran' = Append(ran, "readme")
    /\ stageRes' = Append(stageRes, licenses')
    /\ IF Len(readmeCands') > 0 /\ Found(licenses')
       THEN pc' = "done" /\ err' = "nil" /\ result' = Returned(licenses')
       ELSE pc' = "source" /\ UNCHANGED <<err, result>>
    /\ UNCHANGED <<present, unreadable, rootErr, dirErr, fileNames, licCands, headers>>
    /\ UNCHANGED <<onceVars, mergeVars, classifyVars>>

\* Plan C: the source-header stage, and the end of Detect
ScanSourceHeaders ==
    /\ pc = "source"
    /\ headers' = ExtractSourceFiles(fileNames)
    /\ ran' = Append(ran, "source")
    /\ IF headers'.panicked
       THEN /\ pc' = "panic"
            /\ UNCHANGED <<licenses, stageRes, err, result>>
       ELSE /\ pc' = "done"
            /\ licenses' = IF Len(headers'.comments) > 0
                           THEN InvestigateHeaderComments(headers'.comments)
                           ELSE licenses
            /\ stageRes' = Append(stageRes, licenses')
            /\ IF Found(licenses')
               THEN err' = "nil" /\ result' = Returned(licenses')
               ELSE err' = "ErrNoLicenseFound" /\ result' = NilMap
    /\ UNCHANGED <<present, unreadable, rootErr, dirErr, fileNames, licCands, readmeCands>>
    /\ UNCHANGED <<onceVars, mergeVars, classifyVars>>

-----------------------------------------------------------------------------
(* globalLicenseDatabase: globalLicenseDB.Once.Do around loadLicenses *)

\* The goroutines that call globalLicenseDatabase for the first time
NumCallers == 3

Callers == 1..NumCallers

OnceIdle ==
    /\ opc = <<>>
    /\ mu = 0
    /\ done = 0
    /\ database = 0
    /\ objects = <<>>
    /\ ret = <<>>

InitOnce ==
    /\ opc = [p \in Callers |-> "idle"]
    /\ mu = 0
    /\ done = 0
    /\ database = 0
    /\ objects = <<>>
    /\ ret = [p \in Callers |-> "none"]

\* Once.Do that runs its function whatever the flag says
OnceRunsAlways == TRUE

\* Once.Do, under the mutex: the function runs only while done is 0
OnceRuns == done = 0

\* InvestigateLicenseText, InvestigateReadmeText or InvestigateHeaderComment
\* calls globalLicenseDatabase
CallDatabase(p) ==
    /\ opc[p] = "idle"
    /\ opc' = [opc EXCEPT ![p] = "fast"]
    /\ UNCHANGED <<mu, done, database, objects, ret>>
    /\ UNCHANGED <<detectVars, mergeVars, classifyVars>>

\* Once.Do: the atomic load of done
OnceFastPath(p) ==
    /\ opc[p] = "fast"
    /\ opc' = [opc EXCEPT ![p] = IF done = 1 THEN "return" ELSE "lock"]
    /\ UNCHANGED <<mu, done, database, objects, ret>>
    /\ UNCHANGED <<detectVars, mergeVars, classifyVars>>

\* Once.Do: m.Lock()
OnceLock(p) ==
    /\ opc[p] = "lock"
    /\ mu = 0
    /\ mu' = p
    /\ opc' = [opc EXCEPT ![p] = "slow"]
    /\ UNCHANGED <<done, database, objects, ret>>
    /\ UNCHANGED <<detectVars, mergeVars, classifyVars>>

\* Once.Do: the test of done under the mutex
OnceSlowPath(p) ==
    /\ opc[p] = "slow"
    /\ opc' = [opc EXCEPT ![p] = IF OnceRuns THEN "load" ELSE "unlock"]
    /\ UNCHANGED <<mu, done, database, objects, ret>>
    /\ UNCHANGED <<detectVars, mergeVars, classifyVars>>

\* loadLicenses starts to build a database
LoadStart(p) ==
    /\ opc[p] = "load"
    /\ objects' = Append(objects, [by |-> p, state |-> "partial"])
    /\ opc' = [opc EXCEPT ![p] = "loading"]
    /\ UNCHANGED <<mu, done, database, ret>>
    /\ UNCHANGED <<detectVars, mergeVars, classifyVars>>

\* loadLicenses completes the database it builds
LoadFinish(p) ==
    /\ opc[p] = "loading"
    /\ objects' = [i \in DOMAIN objects |->
                      IF objects[i].by = p THEN [objects[i] EXCEPT !.state = "complete"]
                      ELSE objects[i]]
    /\ opc' = [opc EXCEPT ![p] = "assign"]
    /\ UNCHANGED <<mu, done, database, ret>>
    /\ UNCHANGED <<detectVars, mergeVars, classifyVars>>

\* globalLicenseDB.database = the database loadLicenses returned
AssignDatabase(p) ==
    /\ opc[p] = "assign"
    /\ database' = CHOOSE i \in DOMAIN objects : objects[i].by = p
    /\ opc' = [opc EXCEPT ![p] = "store"]
    /\ UNCHANGED <<mu, done, objects, ret>>
    /\ UNCHANGED <<detectVars, mergeVars, classifyVars>>

\* Once.Do: the deferred atomic store of done
OnceStoreDone(p) ==
    /\ opc[p] = "store"
    /\ done' = 1
    /\ opc' = [opc EXCEPT ![p] = "unlock"]
    /\ UNCHANGED <<mu, database, objects, ret>>
    /\ UNCHANGED <<detectVars, mergeVars, classifyVars>>

\* Once.Do: the deferred m.Unlock()
OnceUnlock(p) ==
    /\ opc[p] = "unlock"
    /\ mu' = 0
    /\ opc' = [opc EXCEPT ![p] = "return"]
    /\ UNCHANGED <<done, database, objects, ret>>
    /\ UNCHANGED <<detectVars, mergeVars, classifyVars>>

\* return globalLicenseDB.database
ReturnDatabase(p) ==
    /\ opc[p] = "return"
    /\ ret' = [ret EXCEPT ![p] =
                  [db |-> database,
                   state |-> IF database = 0 THEN "nil" ELSE objects[database].state]]
    /\ opc' = [opc EXCEPT ![p] = "returned"]
    /\ UNCHANGED <<mu, done, database, objects>>
    /\ UNCHANGED <<detectVars, mergeVars, classifyVars>>

-----------------------------------------------------------------------------
(* The merge applied to given per-candidate score maps *)

\* How many candidates one stage merges
MaxCands == 2

MergeIds == {"MIT", "BSD-3"}

\* Every score map over the ids, confidences from 0 to MaxConf
ScoreMaps == UNION {[ids -> 0..MaxConf] : ids \in SUBSET MergeIds}

Orders(n) == {f \in [1..n -> 1..n] : \A i, j \in 1..n : f[i] = f[j] => i = j}

MergeIdle ==
    /\ mpc = "idle"
    /\ scoreMaps = <<>>
    /\ merged = EmptyMap
    /\ mergedAlt = EmptyMap

InitMerge ==
    /\ mpc = "given"
    /\ scoreMaps \in UNION {[1..n -> ScoreMaps] : n \in 0..MaxCands}
    /\ merged = EmptyMap
    /\ mergedAlt = EmptyMap

\* The candidates' score maps are merged in candidate order and in one
\* other order
Investigate ==
    /\ mpc = "given"
    /\ \E f \in Orders(Len(scoreMaps)) :
          /\ merged' = MaxMerge(scoreMaps)
          /\ mergedAlt' = MaxMerge([i \in DOMAIN scoreMaps |-> scoreMaps[f[i]]])
    /\ mpc' = "merged"
    /\ UNCHANGED scoreMaps
    /\ UNCHANGED <<detectVars, onceVars, classifyVars>>

-----------------------------------------------------------------------------
(* Specifications *)

NextDetect ==
    \/ ListFiles
    \/ ScanLicenseFiles
    \/ ScanReadme
    \/ ScanSourceHeaders

NextOnce ==
    \E p \in Callers :
        \/ CallDatabase(p)
        \/ OnceFastPath(p)
        \/ OnceLock(p)
        \/ OnceSlowPath(p)
        \/ LoadStart(p)
        \/ LoadFinish(p)
        \/ AssignDatabase(p)
        \/ OnceStoreDone(p)
        \/ OnceUnlock(p)
        \/ ReturnDatabase(p)

NextMerge == Investigate

NextClassify == Classify

Init == InitDetect /\ OnceIdle /\ MergeIdle /\ ClassifyIdle

InitSpecOnce == DetectIdle /\ InitOnce /\ MergeIdle /\ ClassifyIdle

InitSpecMerge == DetectIdle /\ OnceIdle /\ InitMerge /\ ClassifyIdle

InitSpecClassify == DetectIdle /\ OnceIdle /\ MergeIdle /\ InitClassify

\* One Detect call on each tree of the pool
Spec == Init /\ [][NextDetect]_vars

\* Concurrent first calls of globalLicenseDatabase
SpecOnce == InitSpecOnce /\ [][NextOnce]_vars

\* The per-stage merge on given score maps
SpecMerge == InitSpecMerge /\ [][NextMerge]_vars

\* The file classifier on given names
SpecClassify == InitSpecClassify /\ [][NextClassify]_vars

-----------------------------------------------------------------------------
(* Properties *)

\* C1: Detect enters its stages in the order license files, README, source
\* headers, each at most once; a stage is entered only while every earlier
\* stage's merged map is empty; the first non-empty merged map ends Detect and
\* is the map returned, with a nil error; ErrNoLicenseFound (with a nil map)
\* is returned exactly when all three stages produced an empty map; an empty
\* map is never returned with a nil error.
DetectStagesInOrder ==
    /\ Len(ran) <= Len(Stages)
    /\ ran = SubSeq(Stages, 1, Len(ran))
    /\ Len(stageRes) <= Len(ran)
    /\ \A i \in DOMAIN stageRes :
          stageRes[i] # EmptyMap =>
              /\ i = Len(stageRes)
              /\ i = Len(ran)
              /\ pc = "done"
              /\ err = "nil"
              /\ result = Returned(stageRes[i])
    /\ (pc = "done" /\ err = "nil") =>
          /\ stageRes # <<>>
          /\ ~result.nil
          /\ result.map # EmptyMap
          /\ result.map = stageRes[Len(stageRes)]
    /\ (err = "ErrNoLicenseFound") <=>
          /\ pc = "done"
          /\ Len(stageRes) = Len(Stages)
          /\ \A i \in DOMAIN stageRes : stageRes[i] = EmptyMap
    /\ (err = "ErrNoLicenseFound") => result = NilMap

\* C1: Detect returned the map of its third stage, after two empty stages
DetectFoundInThirdStage ==
    /\ pc = "done"
    /\ ran = Stages
    /\ err = "nil"
    /\ result.map # EmptyMap

\* C2 (as stated): the merged map's keys are exactly the ids that appear in a
\* per-candidate score map, each with the maximum confidence observed for it,
\* whatever the order of the merge.
MergeKeepsEveryId ==
    LET Appearing == UNION {DOMAIN scoreMaps[i] : i \in DOMAIN scoreMaps}
        Observed(id) ==
            {scoreMaps[i][id] : i \in {k \in DOMAIN scoreMaps : id \in DOMAIN scoreMaps[k]}}
    IN  mpc = "merged" =>
            /\ DOMAIN merged = Appearing
            /\ \A id \in DOMAIN merged : merged[id] = MaxOf(Observed(id))
            /\ mergedAlt = merged

\* C2 (amended): the merged map's keys are exactly the ids that some
\* per-candidate score map gives a confidence above zero, each with the
\* maximum confidence observed for it, whatever the order of the merge.
MergeKeepsPositiveIds ==
    LET Appearing == UNION {DOMAIN scoreMaps[i] : i \in DOMAIN scoreMaps}
        Observed(id) ==
            {scoreMaps[i][id] : i \in {k \in DOMAIN scoreMaps : id \in DOMAIN scoreMaps[k]}}
    IN  mpc = "merged" =>
            /\ DOMAIN merged = {id \in Appearing : \E c \in Observed(id) : c > 0}
            /\ \A id \in DOMAIN merged : merged[id] = MaxOf(Observed(id))
            /\ mergedAlt = merged

\* C2: two candidates were merged, one id kept with the larger of two distinct
\* confidences and an id of confidence zero left out
MergeDroppedZero ==
    LET Appearing == UNION {DOMAIN scoreMaps[i] : i \in DOMAIN scoreMaps}
        Observed(id) ==
            {scoreMaps[i][id] : i \in {k \in DOMAIN scoreMaps : id \in DOMAIN scoreMaps[k]}}
    IN  /\ mpc = "merged"
        /\ Len(scoreMaps) = 2
        /\ \E id \in DOMAIN merged : Cardinality(Observed(id)) = 2
        /\ \E id \in Appearing : id \notin DOMAIN merged

\* C3 (as stated): classification is case-insensitive on the base name;
\* LICENSE, License.txt, COPYING and unlicense.md are license-file candidates
\* and license-plate.txt is not.
LicensePlateRejected ==
    cpc = "classified" =>
        /\ cLicense = IsLicenseFile(ToLower(cname))
        /\ cLicense = IsLicenseFile(Base(cname))
        /\ cname \in {<<"L","I","C","E","N","S","E">>, <<"L","i","c","e","n","s","e",".","t","x","t">>, <<"C","O","P","Y","I","N","G">>, <<"u","n","l","i","c","e","n","s","e",".","m","d">>} => cLicense
        /\ cname = <<"l","i","c","e","n","s","e","-","p","l","a","t","e",".","t","x","t">> => ~cLicense

\* C3 (amended): classification is case-insensitive on the base name;
\* LICENSE, License.txt, COPYING and unlicense.md are license-file candidates,
\* and so is license-plate.txt, whose pattern is followed by a separator; a
\* pattern that runs on into other letters (licenseplate.txt, relicense,
\* permit) makes no candidate.
LicensePlateAccepted ==
    cpc = "classified" =>
        /\ cLicense = IsLicenseFile(ToLower(cname))
        /\ cLicense = IsLicenseFile(Base(cname))
        /\ cname \in {<<"L","I","C","E","N","S","E">>, <<"L","i","c","e","n","s","e",".","t","x","t">>, <<"C","O","P","Y","I","N","G">>, <<"u","n","l","i","c","e","n","s","e",".","m","d">>} => cLicense
        /\ cname = <<"l","i","c","e","n","s","e","-","p","l","a","t","e",".","t","x","t">> => cLicense
        /\ cname \in {<<"l","i","c","e","n","s","e","p","l","a","t","e",".","t","x","t">>, <<"r","e","l","i","c","e","n","s","e">>, <<"p","e","r","m","i","t">>} => ~cLicense

\* C3: license-plate.txt was classified, as a license file
LicensePlateClassified ==
    /\ cpc = "classified"
    /\ cname = <<"l","i","c","e","n","s","e","-","p","l","a","t","e",".","t","x","t">>
    /\ cLicense

\* C4: Detect ends with a non-empty map and no error, or with
\* ErrNoLicenseFound, and with no other error, whichever tree-access call fails.
DetectEndsFoundOrNotFound ==
    pc = "done" =>
        \/ err = "nil" /\ ~result.nil /\ result.map # EmptyMap
        \/ err = "ErrNoLicenseFound"

\* C5: once ExtractLicenseFiles has run, its candidates are, in order, one
\* for each matched file that was read: the content of the file its trimmed
\* content names (preprocessed by that file's extension) when the matched file
\* is shorter than 128 bytes and names a readable file, one hop only; its own
\* content otherwise, so also when it has 128 bytes or more.
RedirectResolvedOnce ==
    LET matched == SelectSeq(fileNames, LAMBDA f : IsLicenseFile(f) /\ f \notin unreadable)
        Target(f) == TrimSpace(FileText(f).data)
        Redirects(f) ==
            /\ Len(FileText(f).data) < RedirectLimit
            /\ Target(f) \in TreeFiles(present) \ unreadable
        ScoredText(f) ==
            IF Redirects(f)
            THEN ApplyPreprocessor(Target(f), FileText(Target(f)))
            ELSE ApplyPreprocessor(f, FileText(f))
    IN  Len(ran) >= 1 =>
            /\ Len(licCands) = Len(matched)
            /\ \A i \in DOMAIN licCands :
                  /\ licCands[i].from = matched[i]
                  /\ licCands[i].text = ScoredText(matched[i])

\* C5: a short file naming a readable sibling was replaced by the sibling, a
\* 128-byte file naming the same sibling was not, and a short file naming a
\* redirect was replaced by that redirect's own content
RedirectCasesScored ==
    /\ Len(ran) >= 1
    /\ \E i \in DOMAIN licCands :
          /\ licCands[i].from = <<"L","I","C","E","N","S","E">>
          /\ licCands[i].text = FileText(<<"L","I","C","E","N","S","E","-","M","I","T">>)
    /\ \E i \in DOMAIN licCands :
          /\ licCands[i].from = <<"C","O","P","Y","I","N","G">>
          /\ licCands[i].text = FileText(<<"C","O","P","Y","I","N","G">>)
    /\ \E i \in DOMAIN licCands :
          /\ licCands[i].from = <<"l","e","g","a","l",".","m","d">>
          /\ licCands[i].text = FileText(<<"L","I","C","E","N","S","E">>)

\* C6: loadLicenses is executed at most once, and every caller returns the
\* one database it built, after its construction has completed.
DatabaseLoadedOnce ==
    /\ Len(objects) <= 1
    /\ \A p \in Callers :
          opc[p] = "returned" =>
              /\ ret[p].db = 1
              /\ ret[p].state = "complete"
              /\ objects[1].state = "complete"
    /\ \A p, q \in Callers :
          (opc[p] = "returned" /\ opc[q] = "returned") => ret[p].db = ret[q].db

\* C6: every caller has returned
AllCallersReturned == \A p \in Callers : opc[p] = "returned"

\* C7: when the source-header stage completes, every readable, safely
\* classified file was processed, in order, each under the comment syntax of
\* the language the classifier gave for that same file.
HeaderLanguageOfOwnFile ==
    (pc = "done" /\ Len(ran) = Len(Stages)) =>
        LET read == SelectSeq(fileNames,
                              LAMBDA f : GetLanguage(f).safe /\ f \notin unreadable)
        IN  /\ Len(headers.trace) = Len(read)
            /\ \A k \in DOMAIN headers.trace :
                  /\ headers.trace[k].from = read[k]
                  /\ headers.trace[k].lang = GetLanguage(read[k]).lang

\* C8: the search window of every source candidate is the first
\* min(length, 1024) bytes of its content, and extraction never fails at run time.
HeaderWindowWithinContent ==
    /\ pc # "panic"
    /\ \A k \in DOMAIN headers.trace :
          headers.trace[k].window =
              SubSeq(headers.trace[k].data, 1, Min(Len(headers.trace[k].data), HeaderWindow))

\* C9: once ExtractReadmeFiles has run, its candidates are, in order, the
\* readable listed paths whose lower-cased base name is readme or guidelines
\* with an optional .md, .rst, .html or .txt, children of a license directory
\* included.
ReadmeByBaseName ==
    LET named == SelectSeq(fileNames,
                           LAMBDA f : readmeFileRe(ToLower(Base(f))) /\ f \notin unreadable)
    IN  Len(ran) >= 2 =>
            /\ Len(readmeCands) = Len(named)
            /\ \A i \in DOMAIN readmeCands : readmeCands[i].from = named[i]

\* C10: the blob of a source candidate in which comments were found is the
\* concatenation of the matched comments in order of occurrence, each
\* contributing its text exactly once.
BlobHoldsEachCommentOnce ==
    LET WholeMatches(match) == Concat([i \in DOMAIN match |-> match[i][1]])
    IN  \A k \in DOMAIN headers.trace :
            headers.trace[k].outcome = "comment" =>
                headers.trace[k].matchText =
                    WholeMatches(FindAllStringSubmatch(commentSyntaxes[headers.trace[k].lang],
                                                       headers.trace[k].window))

=============================================================================
